---- MODULE Spec2Model ----
(***************************************************************************)
(* A model of peal's operator layer: peal/operators/operator.py (Operator, *)
(* OperatorChain) and peal/operators/mutation.py (BitFlip, UniformInt,     *)
(* UniformFloat, NormalDist).                                              *)
(*                                                                         *)
(* Python values are modelled as follows.                                  *)
(*   - an operator object is a record [cls, iter_type, attrs];             *)
(*   - a container object lives in a heap, id |-> [kind, items]; the       *)
(*     caller's container has id CallerId, Population()/Community()        *)
(*     allocate the next unused id;                                        *)
(*   - an individual is a record [genes, hidden]; genes are integers (a    *)
(*     bit gene is 0/1, False/True), hidden genes are rationals <<n, d>>;  *)
(*   - a probability p is the integer p * ProbScale, a draw of             *)
(*     np.random.random_sample() (a float of [0, 1)) is k / ProbScale for  *)
(*     k in 0 .. ProbScale-1, stored as k;                                 *)
(*   - a raised exception is an outcome record with status "TypeError",    *)
(*     "IndexError", ... and the place that raised in msg.                 *)
(* Population, Community, Individual and the iteration types are not part  *)
(* of the two source files; they are modelled from their description.      *)
(***************************************************************************)
EXTENDS Integers, Sequences, FiniteSets, TLC

\* ---------------------------------------------------------------- bounds
MaxLen    == 2   \* items of a container handed to process
MaxGenes  == 2   \* genes of an individual handed to BitFlip or UniformInt
MaxStepGenes == 1 \* genes of an individual handed to NormalDist
MaxCalls  == 2   \* successive NormalDist calls on one individual
MaxChain  == 2   \* steps of an OperatorChain
ProbScale == 2   \* resolution of probabilities and of random draws
StepFactor == 2  \* the alpha a self-adaptive NormalDist is built with

\* ------------------------------------------------------ program constants
DefaultLowest == -1   \* UniformInt(lowest=-1)
DefaultHighest == 1   \* UniformInt(highest=1)

\* ------------------------------------------------------------ value sets
Draws   == 0 .. (ProbScale - 1)            \* random_sample() in [0, 1)
\* the values of prob tried: 0 .. 1 first, then one below and one above
ProbList ==
  [i \in 1 .. (ProbScale + 3) |->
     IF i <= ProbScale + 1 THEN i - 1
     ELSE IF i = ProbScale + 2 THEN 0 - 1 ELSE ProbScale + 1]
BoundRange == DefaultLowest .. DefaultHighest
OutOfRange == DefaultHighest + 6           \* a gene value outside any range
Noise   == {0 - 1, 1}                      \* np.random.normal(mu, sigma) - mu

MutationClasses == {"BitFlip", "UniformInt", "UniformFloat", "NormalDist"}

\* iteration types: two IterationType instances and a value that is none
IterationTypes == {"SingleIteration", "WholeIteration"}
NotIterationType == "int"
IterValues == IterationTypes \cup {NotIterationType}
None == "None"

NoOp == [cls |-> "none"]
NoChain == <<[list |-> FALSE, ops |-> <<>>]>>
NoInd == [genes |-> <<>>, hidden |-> <<>>, none |-> TRUE]
CallerId == 1

\* ----------------------------------------------------------- rationals
RECURSIVE Gcd(_, _)
Gcd(a, b) == IF b = 0 THEN a ELSE Gcd(b, a % b)

Rat(n, d) == LET g == Gcd(n, d) IN <<n \div g, d \div g>>
RatMul(x, y) == Rat(x[1] * y[1], x[2] * y[2])
RatEq(x, y) == x[1] * y[2] = y[1] * x[2]

RECURSIVE Pow(_, _)
Pow(a, k) == IF k = 0 THEN 1 ELSE a * Pow(a, k - 1)

\* alpha^k as a rational, k possibly negative
RatPow(a, k) == IF k >= 0 THEN Rat(Pow(a, k), 1) ELSE Rat(1, Pow(a, 0 - k))

\* ------------------------------------------------------------ containers
RECURSIVE SeqsUpTo(_, _)
SeqsUpTo(S, n) ==
  IF n = 0 THEN {<<>>}
  ELSE LET T == SeqsUpTo(S, n - 1) IN
       T \cup {Append(t, s) : t \in {u \in T : Len(u) = n - 1}, s \in S}

\* individuals held by the containers given to process
Ind(g, h) == [genes |-> g, hidden |-> h]
PoolInds == {Ind(<<0>>, <<>>), Ind(<<1>>, <<>>)}

Population(items) == [kind |-> "Population", items |-> items]
Community(items) == [kind |-> "Community", items |-> items]

Populations == {Population(s) : s \in SeqsUpTo(PoolInds, MaxLen)}
Communities ==
  {Community(s) : s \in SeqsUpTo({Population(t) : t \in SeqsUpTo(PoolInds, 1)}, MaxLen)}
\* something that is neither a Population nor a Community, e.g. a list
Others == {[kind |-> "list", items |-> s] : s \in SeqsUpTo(PoolInds, 1)}
Containers == Populations \cup Communities \cup Others

\* Population.integrate / Community.integrate: append the other's items
Integrate(c, other) == [c EXCEPT !.items = @ \o other.items]

\* the batches an iteration type yields for a container
SingleIteration(c) == [i \in 1 .. Len(c.items) |-> [kind |-> c.kind, items |-> <<c.items[i]>>]]
WholeIteration(c) == <<[kind |-> c.kind, items |-> c.items]>>
Batches(it, c) == IF it = "SingleIteration" THEN SingleIteration(c) ELSE WholeIteration(c)

NextId(h) == Cardinality(DOMAIN h) + 1
Alloc(h, obj) == [i \in (DOMAIN h) \cup {NextId(h)} |-> IF i \in DOMAIN h THEN h[i] ELSE obj]

VARIABLES
  op,          \* the operator object under test, NoOp before construction
  lastSet,     \* outcome of the last assignment to op.iter_type
  heap,        \* container objects after the last process call
  outcome,     \* outcome of the last process call
  hookDraws,   \* random_sample() outcomes of the last direct hook call
  hookOut,     \* outcome of the last direct hook call
  ind0,        \* individual the succession of hook calls started from
  n,           \* hook calls made in succession so far
  chain,       \* the steps of the OperatorChain under test
  chosen,      \* operators the last chain run applied, in order
  prevChosen,  \* operators the chain run before it applied
  procLog      \* per step of the last chain run: operator, input, output

vars == <<op, lastSet, heap, outcome, hookDraws, hookOut, ind0, n,
          chain, chosen, prevChosen, procLog>>

NoOutcome == [status |-> "none"]

\* ------------------------------------------------------------- Operator
\* Operator.__init__: the argument is stored unchecked, None gives the default
Operator_init(cls, iter_type, attrs) ==
  [cls |-> cls,
   iter_type |-> IF iter_type = None THEN "SingleIteration" ELSE iter_type,
   attrs |-> attrs]

\* isinstance(iter_type, IterationType)
IsIterationType(v) == v \in IterationTypes

\* Operator.iter_type setter: [status, op]
iter_type_setter(o, v) ==
  IF ~IsIterationType(v)
  THEN [status |-> "TypeError", msg |-> "Expected IterationType", op |-> o]
  ELSE [status |-> "ok", msg |-> "", op |-> [o EXCEPT !.iter_type = v]]

\* the warning text carries type(self).__name__ and the container kind
Warning(cls, kind) == <<cls, kind>>

\* Operator._process_population / _process_community: warn, return the batch
Operator_process_population(o, batch) ==
  [status |-> "ok", msg |-> "", hook |-> "_process_population", ret |-> batch,
   warnings |-> <<Warning(o.cls, "Population")>>]

Operator_process_community(o, batch) ==
  [status |-> "ok", msg |-> "", hook |-> "_process_community", ret |-> batch,
   warnings |-> <<Warning(o.cls, "Community")>>]

\* does cls's _process_population take the keyword argument pool?  The
\* overrides in mutation.py are declared (self, container) only.
AcceptsPool(cls) == cls = "Operator"

\* self._process_population(batch, pool=pool) as called by process
CallPopulationHook(o, batch) ==
  IF AcceptsPool(o.cls)
  THEN Operator_process_population(o, batch)
  ELSE [status |-> "TypeError", msg |-> "unexpected keyword argument 'pool'",
        hook |-> "_process_population", ret |-> batch, warnings |-> <<>>]

\* self._process_community(batch, pool=pool): no class overrides it
CallCommunityHook(o, batch) == Operator_process_community(o, batch)

CallHookFor(o, kind, batch) ==
  IF kind = "Population" THEN CallPopulationHook(o, batch)
  ELSE CallCommunityHook(o, batch)

\* the for loop of process: acc is [status, msg, heap, ret, calls, warnings];
\* calls lists the hook invocations that were entered: hook, batch, result
RECURSIVE ProcessLoop(_, _, _, _, _)
ProcessLoop(o, kind, batches, i, acc) ==
  IF i > Len(batches) THEN acc
  ELSE LET r == CallHookFor(o, kind, batches[i]) IN
       IF r.status # "ok"
       THEN [acc EXCEPT !.status = r.status, !.msg = r.msg]
       ELSE ProcessLoop(o, kind, batches, i + 1,
              [acc EXCEPT !.heap = [@ EXCEPT ![acc.ret] = Integrate(@, r.ret)],
                          !.calls = Append(@, [hook |-> r.hook, batch |-> batches[i],
                                               ret |-> r.ret]),
                          !.warnings = @ \o r.warnings])

\* the container process builds its result in: Population() / Community()
NewContainer(h, kind) == Alloc(h, [kind |-> kind, items |-> <<>>])
ResultId(h, cid) == NextId(h)

\* Operator.process(container, pool=pool) on heap object cid
Operator_process(o, h, cid) ==
  LET c == h[cid] IN
  IF c.kind \in {"Population", "Community"}
  THEN LET rid == ResultId(h, cid)
           h1 == IF rid = cid THEN h ELSE NewContainer(h, c.kind)
           acc0 == [status |-> "ok", msg |-> "", heap |-> h1, ret |-> rid,
                    calls |-> <<>>, warnings |-> <<>>]
       IN IF ~IsIterationType(o.iter_type)
          THEN [acc0 EXCEPT !.status = "TypeError",
                            !.msg = "iter_type object is not callable"]
          ELSE ProcessLoop(o, c.kind, Batches(o.iter_type, c), 1, acc0)
  ELSE [status |-> "TypeError",
        msg |-> "Operator can only process populations or communities",
        heap |-> h, ret |-> cid, calls |-> <<>>, warnings |-> <<>>]

\* ------------------------------------------------------ mutation hooks
\* np.random.random_sample() <= self._prob
Hit(draw, prob) == draw <= prob

\* np.where(np.random.random_sample(len(genes)) <= prob)[0]
Hits(draws, prob) == {i \in DOMAIN draws : Hit(draws[i], prob)}

\* python's not: False for a truthy gene, True for a falsy one
Not(gene) == IF gene = 0 THEN 1 ELSE 0

\* the values np.random.randint(low, high) can return: low <= v < high
RandInt(low, high) == low .. (high - 1)

\* Population(ind)
PopulationOf(ind) == Population(<<ind>>)

HookOk(ind) ==
  [status |-> "ok", msg |-> "", hook |-> "_process_population",
   ret |-> PopulationOf(ind), warnings |-> <<>>]
HookRaise(exc, where, c) ==
  [status |-> exc, msg |-> where, hook |-> "_process_population",
   ret |-> c, warnings |-> <<>>]

\* BitFlip._process_population(container); draws[i] is the i-th random_sample()
BitFlip_process_population(o, container, draws) ==
  IF Len(container.items) = 0 THEN HookRaise("IndexError", "container[0]", container)
  ELSE LET ind == container.items[1] IN
       HookOk([ind EXCEPT !.genes =
                 [i \in DOMAIN ind.genes |->
                    IF Hit(draws[i], o.attrs.prob) THEN Not(ind.genes[i])
                    ELSE ind.genes[i]]])

\* an off-by-one in the exclusive upper bound handed to randint
UniformIntValues_mut(o) == RandInt(o.attrs.lowest, o.attrs.highest + 2)

\* the values UniformInt draws for the selected genes
UniformIntValues(o) == RandInt(o.attrs.lowest, o.attrs.highest + 1)

\* UniformInt._process_population(container); vals[i] is the integer drawn
\* for gene i when it is among the hits
UniformInt_process_population(o, container, draws, vals) ==
  IF Len(container.items) = 0 THEN HookRaise("IndexError", "container[0]", container)
  ELSE LET ind == container.items[1]
           hits == Hits(draws, o.attrs.prob) IN
       HookOk([ind EXCEPT !.genes =
                 [i \in DOMAIN ind.genes |->
                    IF i \in hits THEN vals[i] ELSE ind.genes[i]]])

\* a choice between alpha and leaving the step size alone
AlphaFactors_mut(alpha) == {Rat(alpha, 1), Rat(1, 1)}

\* np.random.choice([self._alpha, 1/self._alpha])
AlphaFactors(alpha) == {Rat(alpha, 1), Rat(1, alpha)}

\* ind.hidden_genes[0] *= factor
ScaleStep(hidden, factor) == [hidden EXCEPT ![1] = RatMul(@, factor)]

\* the hidden genes NormalDist leaves in the returned individual
NormalDistHidden(o, hidden, factor) ==
  IF o.attrs.alpha # <<>> THEN ScaleStep(hidden, factor) ELSE hidden

\* the samples np.random.normal(mu, sigma) can return
NormalSamples(mu, sigmaIsZero) == IF sigmaIsZero THEN {mu} ELSE {mu + d : d \in Noise}

\* NormalDist._process_population(container); factor is the outcome of
\* np.random.choice, vals[i] the normal sample added to gene i when hit
NormalDist_process_population(o, container, draws, factor, vals) ==
  IF Len(container.items) = 0 THEN HookRaise("IndexError", "container[0]", container)
  ELSE LET ind == container.items[1]
           hits == Hits(draws, o.attrs.prob) IN
       IF o.attrs.alpha # <<>> /\ Len(ind.hidden) = 0
       THEN HookRaise("IndexError", "hidden_genes[0]", container)
       ELSE HookOk([genes |-> [i \in DOMAIN ind.genes |->
                                 IF i \in hits THEN ind.genes[i] + vals[i]
                                 ELSE ind.genes[i]],
                    hidden |-> NormalDistHidden(o, ind.hidden, factor)])

\* sigma of the normal distribution of one call is zero
SigmaIsZero(o, ind) ==
  IF o.attrs.alpha = <<>> THEN o.attrs.sigma = 0
  ELSE Len(ind.hidden) > 0 /\ ind.hidden[1][1] = 0

\* the outcomes of the random calls one hook call makes, for ind
GeneFns(ind, S) == [DOMAIN ind.genes -> S]
HookValues(o, ind) ==
  IF o.cls = "UniformInt" THEN UniformIntValues(o)
  ELSE IF o.cls = "NormalDist" THEN NormalSamples(o.attrs.mu, SigmaIsZero(o, ind))
  ELSE {0}
HookFactors(o) ==
  IF o.cls = "NormalDist" /\ o.attrs.alpha # <<>> THEN AlphaFactors(o.attrs.alpha[1])
  ELSE {Rat(1, 1)}
HookDrawSet(o) == IF o.cls = "Operator" THEN {0} ELSE Draws

\* a value is only drawn for a gene that is hit
ValsFor(o, ind, draws) ==
  {v \in GeneFns(ind, HookValues(o, ind) \cup {0}) :
     \A i \in DOMAIN v :
        IF o.cls \in {"UniformInt", "NormalDist"} /\ i \in Hits(draws, o.attrs.prob)
        THEN v[i] \in HookValues(o, ind) ELSE v[i] = 0}

\* o._process_population(container), called directly on a batch
HookCall(o, container, draws, factor, vals) ==
  IF o.cls = "BitFlip" THEN BitFlip_process_population(o, container, draws)
  ELSE IF o.cls = "UniformInt" THEN UniformInt_process_population(o, container, draws, vals)
  ELSE IF o.cls = "NormalDist" THEN NormalDist_process_population(o, container, draws, factor, vals)
  ELSE Operator_process_population(o, container)

\* ------------------------------------------------------- OperatorChain
Single(o) == [list |-> FALSE, ops |-> <<o>>]
Alternatives(os) == [list |-> TRUE, ops |-> os]

\* np.random.randint(len(operator)): an index of 0 .. len-1
ChoiceIndices(step) == IF step.list THEN RandInt(0, Len(step.ops)) ELSE {0}

\* the operator a step applies, given the index drawn for it
StepOperator(step, pick) == IF step.list THEN step.ops[pick + 1] ELSE step.ops[1]

\* every step given the chain's own argument
StepInput_mut(acc, cid) == cid

\* the container a step of the chain is given: the previous step's result
StepInput(acc, cid) == acc.ret

\* the for loop of OperatorChain.process: picks[i] is the index drawn for
\* step i; acc is [status, msg, heap, ret, calls, warnings, log]
RECURSIVE ChainLoop(_, _, _, _, _)
ChainLoop(steps, i, picks, cid, acc) ==
  IF i > Len(steps) THEN acc
  ELSE LET operator == StepOperator(steps[i], picks[i])
           inId == StepInput(acc, cid)
           r == Operator_process(operator, acc.heap, inId)
           entry == [op |-> operator, in |-> inId, out |-> r.ret, status |-> r.status]
           acc1 == [acc EXCEPT !.heap = r.heap,
                               !.calls = @ \o r.calls,
                               !.warnings = @ \o r.warnings,
                               !.log = Append(@, entry)]
       IN IF r.status # "ok"
          THEN [acc1 EXCEPT !.status = r.status, !.msg = r.msg]
          ELSE ChainLoop(steps, i + 1, picks, cid, [acc1 EXCEPT !.ret = r.ret])

\* OperatorChain.process(container, pool=pool) on heap object cid
OperatorChain_process(steps, picks, h, cid) ==
  ChainLoop(steps, 1, picks, cid,
            [status |-> "ok", msg |-> "", heap |-> h, ret |-> cid,
             calls |-> <<>>, warnings |-> <<>>, log |-> <<>>])

\* the operators of a log
LogOps(log) == [i \in DOMAIN log |-> log[i].op]

\* ------------------------------------------------------------- inputs
\* individuals handed to a hook: genes 0, OutOfRange, 0, ... of every length
\* up to k, without hidden genes or with the step size 3/2
HookGenes(k) == {[i \in 1 .. j |-> IF i % 2 = 1 THEN 0 ELSE OutOfRange] : j \in 0 .. k}
HookInds(k) == {Ind(g, h) : g \in HookGenes(k), h \in {<<>>, <<Rat(3, 2)>>}}
\* the individuals a succession of calls of operator o starts from
FirstInds(o) == IF o.cls = "NormalDist" THEN HookInds(MaxStepGenes) ELSE HookInds(MaxGenes)

Bounds == {b \in BoundRange \X BoundRange : b[1] <= b[2]}
Alphas == {<<>>, <<1>>, <<StepFactor>>}

BaseSingle == Operator_init("Operator", None, <<>>)
BaseWhole == Operator_init("Operator", "WholeIteration", <<>>)
FlipAll == Operator_init("BitFlip", None, [prob |-> ProbScale])
ChainOps == <<BaseSingle, BaseWhole, FlipAll>>
ChainSteps ==
  {Single(ChainOps[i]) : i \in DOMAIN ChainOps}
  \cup {Alternatives(<<ChainOps[p[1]], ChainOps[p[2]]>>) :
          p \in {q \in (DOMAIN ChainOps) \X (DOMAIN ChainOps) : q[1] < q[2]}}
Chains == SeqsUpTo(ChainSteps, MaxChain)
ChainContainers ==
  {Population(<<>>),
   Population([i \in 1 .. MaxLen |-> Ind(<<i % 2>>, <<>>)]),
   Community([i \in 1 .. MaxLen |-> Population(<<Ind(<<i % 2>>, <<>>)>>)])}

\* the heap holding only the caller's container
CallerHeap(c) == [i \in {CallerId} |-> c]

\* ------------------------------------------------------------- actions
UnchangedCalls == UNCHANGED <<heap, outcome, hookDraws, hookOut, ind0, n>>
UnchangedChain == UNCHANGED <<chain, chosen, prevChosen, procLog>>

\* Operator(iter_type)
NewOperator(it) ==
  /\ op = NoOp /\ chain = NoChain
  /\ op' = Operator_init("Operator", it, <<>>)
  /\ UNCHANGED lastSet /\ UnchangedCalls /\ UnchangedChain

\* BitFlip(prob)
NewBitFlip(prob) ==
  /\ op = NoOp /\ chain = NoChain
  /\ op' = Operator_init("BitFlip", None, [prob |-> prob])
  /\ UNCHANGED lastSet /\ UnchangedCalls /\ UnchangedChain

\* UniformInt(prob, lowest, highest)
NewUniformInt(prob, lowest, highest) ==
  /\ op = NoOp /\ chain = NoChain
  /\ op' = Operator_init("UniformInt", None,
                         [prob |-> prob, lowest |-> lowest, highest |-> highest])
  /\ UNCHANGED lastSet /\ UnchangedCalls /\ UnchangedChain

\* UniformFloat(prob, lowest, highest)
NewUniformFloat(prob, lowest, highest) ==
  /\ op = NoOp /\ chain = NoChain
  /\ op' = Operator_init("UniformFloat", None,
                         [prob |-> prob, lowest |-> lowest, highest |-> highest])
  /\ UNCHANGED lastSet /\ UnchangedCalls /\ UnchangedChain

\* NormalDist(prob, mu, sigma, alpha)
NewNormalDist(prob, mu, sigma, alpha) ==
  /\ op = NoOp /\ chain = NoChain
  /\ op' = Operator_init("NormalDist", None,
                         [prob |-> prob, mu |-> mu, sigma |-> sigma, alpha |-> alpha])
  /\ UNCHANGED lastSet /\ UnchangedCalls /\ UnchangedChain

\* op.iter_type = v
SetIterType(v) ==
  /\ op # NoOp /\ n = 0 /\ outcome = NoOutcome
  /\ LET r == iter_type_setter(op, v) IN
       /\ op' = r.op
       /\ lastSet' = [status |-> r.status, msg |-> r.msg, value |-> v]
  /\ UnchangedCalls /\ UnchangedChain

\* op.process(c)
Process(c) ==
  /\ op # NoOp /\ n = 0
  /\ LET r == Operator_process(op, CallerHeap(c), CallerId) IN
       /\ heap' = r.heap
       /\ outcome' = [status |-> r.status, msg |-> r.msg, ret |-> r.ret,
                      calls |-> r.calls, warnings |-> r.warnings,
                      self |-> op, arg |-> c]
  /\ UNCHANGED <<op, lastSet, hookDraws, hookOut, ind0, n>>
  /\ UnchangedChain

\* op._process_population(Population(ind)), for the first time on ind or, for
\* a NormalDist, on the individual the previous call returned.  The hook of
\* UniformFloat draws reals of [lowest, highest) and is not called here.
CallHook(ind, draws, factor, vals) ==
  /\ op # NoOp /\ op.cls # "UniformFloat"
  /\ outcome = NoOutcome /\ lastSet = NoOutcome
  /\ n < MaxCalls /\ (n = 0 \/ op.cls = "NormalDist")
  /\ IF n = 0 THEN ind \in FirstInds(op)
     ELSE hookOut.status = "ok" /\ ind = hookOut.ret.items[1]
  /\ hookDraws' = draws
  /\ hookOut' = HookCall(op, PopulationOf(ind), draws, factor, vals)
  /\ ind0' = IF n = 0 THEN ind ELSE ind0
  /\ n' = n + 1
  /\ UNCHANGED <<op, lastSet, heap, outcome>>
  /\ UnchangedChain

\* OperatorChain(*steps)
NewChain(steps) ==
  /\ op = NoOp /\ chain = NoChain
  /\ chain' = steps
  /\ UNCHANGED <<op, lastSet, chosen, prevChosen, procLog>>
  /\ UnchangedCalls

\* chain.process(c)
ChainProcess(c, picks) ==
  /\ chain # NoChain
  /\ LET r == OperatorChain_process(chain, picks, CallerHeap(c), CallerId) IN
       /\ heap' = r.heap
       /\ outcome' = [status |-> r.status, msg |-> r.msg, ret |-> r.ret,
                      calls |-> r.calls, warnings |-> r.warnings,
                      self |-> NoOp, arg |-> c]
       /\ procLog' = r.log
       /\ chosen' = LogOps(r.log)
  /\ prevChosen' = chosen
  /\ UNCHANGED <<op, lastSet, chain, hookDraws, hookOut, ind0, n>>

Init ==
  /\ op = NoOp
  /\ lastSet = NoOutcome
  /\ heap = <<>>
  /\ outcome = NoOutcome
  /\ hookDraws = <<>>
  /\ hookOut = NoOutcome
  /\ ind0 = NoInd
  /\ n = 0
  /\ chain = NoChain
  /\ chosen = <<>>
  /\ prevChosen = <<>>
  /\ procLog = <<>>

\* one direct hook call, with every outcome of its random calls
HookStep ==
  \E ind \in (IF n = 0 THEN FirstInds(op) ELSE {hookOut.ret.items[1]}) :
    \E draws \in GeneFns(ind, HookDrawSet(op)), factor \in HookFactors(op) :
      \E vals \in ValsFor(op, ind, draws) : CallHook(ind, draws, factor, vals)

\* one run of the chain, with every outcome of its random choices
ChainStep ==
  \E c \in ChainContainers :
    \E picks \in [DOMAIN chain -> 0 .. 1] :
       /\ \A i \in DOMAIN chain : picks[i] \in ChoiceIndices(chain[i])
       /\ ChainProcess(c, picks)

Next ==
  \/ \E pi \in DOMAIN ProbList : NewBitFlip(ProbList[pi])
  \/ \E it \in IterValues \cup {None} : NewOperator(it)
  \/ \E pi \in DOMAIN ProbList, b \in Bounds : NewUniformInt(ProbList[pi], b[1], b[2])
  \/ \E pi \in DOMAIN ProbList, b \in Bounds : NewUniformFloat(ProbList[pi], b[1], b[2])
  \/ \E pi \in DOMAIN ProbList, alpha \in Alphas : NewNormalDist(ProbList[pi], 0, 1, alpha)
  \/ \E v \in IterValues : SetIterType(v)
  \/ \E c \in Containers : Process(c)
  \/ HookStep
  \/ \E steps \in Chains : NewChain(steps)
  \/ ChainStep

Spec == Init /\ [][Next]_vars

\* an OperatorChain and its runs
NextChain ==
  \/ \E steps \in Chains : NewChain(steps)
  \/ ChainStep

SpecChain == Init /\ [][NextChain]_vars

\* a UniformInt and a direct call of its hook
NextUniformInt ==
  \/ \E pi \in DOMAIN ProbList, b \in Bounds : NewUniformInt(ProbList[pi], b[1], b[2])
  \/ HookStep

SpecUniformInt == Init /\ [][NextUniformInt]_vars

\* a NormalDist and successive direct calls of its hook
NextNormalDist ==
  \/ \E pi \in DOMAIN ProbList, alpha \in Alphas : NewNormalDist(ProbList[pi], 0, 1, alpha)
  \/ HookStep

SpecNormalDist == Init /\ [][NextNormalDist]_vars

\* =============================================================== claims
\* the last call was op.process(arg) / chain.process(arg)
Processed == outcome # NoOutcome /\ outcome.self # NoOp
ChainRan == outcome # NoOutcome /\ outcome.self = NoOp
IsContainer(c) == c.kind \in {"Population", "Community"}
\* the last direct hook call returned an individual; BitFlip and UniformInt
\* are called once, so that ind0 is the individual that call was given
HookReturned == n > 0 /\ hookOut.status = "ok"
OutGenes == hookOut.ret.items[1].genes
OutHidden == hookOut.ret.items[1].hidden

\* C1: process of a Population by an operator with SingleIteration (base
\* Operator or one of the four mutations) completes and returns a
\* Population of the same length.
C1_LengthPreserved ==
  (Processed /\ outcome.arg.kind = "Population"
     /\ outcome.self.iter_type = "SingleIteration")
  => /\ outcome.status = "ok"
     /\ heap[outcome.ret].kind = "Population"
     /\ Len(heap[outcome.ret].items) = Len(outcome.arg.items)

\* C2: a base Operator is an identity placeholder: process of a Population
\* or Community does not fail, warns once per batch, returns a container
\* with exactly the argument's elements in order, and leaves the argument
\* as it was.
C2_BaseIdentity ==
  (Processed /\ outcome.self.cls = "Operator" /\ IsContainer(outcome.arg))
  => /\ outcome.status = "ok"
     /\ Len(outcome.warnings) = Len(Batches(outcome.self.iter_type, outcome.arg))
     /\ \A i \in DOMAIN outcome.warnings :
          outcome.warnings[i] = Warning("Operator", outcome.arg.kind)
     /\ heap[outcome.ret].kind = outcome.arg.kind
     /\ heap[outcome.ret].items = outcome.arg.items
     /\ heap[CallerId] = outcome.arg

\* the heap as it was when the object with this id was the newest
HeapUpTo(id) == [j \in 1 .. id |-> heap[j]]

\* C3: a chain run applies one operator per step, in step order, each a
\* member of its step (the step's operator itself when the step is no
\* list), each step's result being the next step's argument and the last
\* result the chain's; a failing step ends the run with its error.
C3_ChainComposition ==
  ChainRan =>
    LET k == Len(procLog) IN
    /\ k <= Len(chain)
    /\ chosen = LogOps(procLog)
    /\ \A i \in 1 .. k :
         /\ \E j \in DOMAIN chain[i].ops : procLog[i].op = chain[i].ops[j]
         /\ procLog[i].in = (IF i = 1 THEN CallerId ELSE procLog[i - 1].out)
         /\ i < k => procLog[i].status = "ok"
         /\ LET r == Operator_process(procLog[i].op, HeapUpTo(procLog[i].in),
                                      procLog[i].in) IN
              /\ r.status = procLog[i].status
              /\ r.status = "ok" =>
                   /\ r.ret = procLog[i].out
                   /\ r.heap[r.ret] = heap[procLog[i].out]
    /\ heap[CallerId] = outcome.arg
    /\ IF outcome.status = "ok"
       THEN /\ k = Len(chain)
            /\ \A i \in 1 .. k : procLog[i].status = "ok"
            /\ outcome.ret = (IF k = 0 THEN CallerId ELSE procLog[k].out)
       ELSE k >= 1 /\ procLog[k].status = outcome.status

\* C3 witness: two runs of a two-step chain whose first step is a list; the
\* first run chose the list's first member, the second its second member,
\* and the second run returned the result of its last step.
C3_Witness ==
  /\ ChainRan /\ outcome.status = "ok"
  /\ Len(chain) = 2 /\ chain[1].list /\ ~chain[2].list
  /\ chain[1].ops[1] # chain[1].ops[2]
  /\ Len(outcome.arg.items) = MaxLen
  /\ Len(prevChosen) = 2 /\ prevChosen[1] = chain[1].ops[1]
  /\ chosen[1] = chain[1].ops[2] /\ chosen[2] = chain[2].ops[1]
  /\ outcome.ret = procLog[2].out /\ procLog[2].in = procLog[1].out
  /\ heap[outcome.ret].items = outcome.arg.items

\* C4: process fails, with the invalid-container error and without a hook
\* invocation, exactly when the argument is neither a Population nor a
\* Community; for a Population only the population hook runs and a
\* Population is returned, for a Community only the community hook runs
\* and a Community is returned.
C4_Dispatch ==
  Processed =>
    /\ outcome.status # "ok" <=> ~IsContainer(outcome.arg)
    /\ ~IsContainer(outcome.arg) =>
         /\ outcome.status = "TypeError"
         /\ outcome.msg = "Operator can only process populations or communities"
         /\ outcome.calls = <<>>
    /\ IsContainer(outcome.arg) =>
         /\ heap[outcome.ret].kind = outcome.arg.kind
         /\ \A i \in DOMAIN outcome.calls :
              outcome.calls[i].hook =
                (IF outcome.arg.kind = "Population" THEN "_process_population"
                 ELSE "_process_community")

\* C5: an operator never holds an iter_type that is no IterationType; an
\* assignment of such a value fails with a TypeError.
C5_IterTypeAlwaysValid ==
  /\ op # NoOp => IsIterationType(op.iter_type)
  /\ lastSet # NoOutcome =>
       (lastSet.status = "TypeError" <=> ~IsIterationType(lastSet.value))

\* C6: no mutation operator with prob < 0 or prob > 1 exists.
C6_ProbValidated ==
  (op # NoOp /\ op.cls \in MutationClasses)
  => (0 <= op.attrs.prob /\ op.attrs.prob <= ProbScale)

\* C7: BitFlip on a single-individual batch: with prob = 1 every gene of the
\* result is the negation of the input gene, with prob = 0 every gene of the
\* result is the input gene, whatever the draws.
C7_BitFlipExtremes ==
  (op # NoOp /\ op.cls = "BitFlip" /\ HookReturned)
  => /\ DOMAIN OutGenes = DOMAIN ind0.genes
     /\ op.attrs.prob = ProbScale =>
          \A i \in DOMAIN OutGenes :
             (OutGenes[i] # 0) <=> (ind0.genes[i] = 0)
     /\ op.attrs.prob = 0 =>
          \A i \in DOMAIN OutGenes : OutGenes[i] = ind0.genes[i]

\* C8: UniformInt on a single-individual batch: a gene whose draw selects it
\* (draw <= prob) gets a value of lowest .. highest, any other gene keeps
\* its value, and the number of genes is unchanged.
C8_UniformIntRange ==
  (op # NoOp /\ op.cls = "UniformInt" /\ HookReturned)
  => /\ DOMAIN OutGenes = DOMAIN ind0.genes
     /\ \A i \in DOMAIN OutGenes :
          IF hookDraws[i] <= op.attrs.prob
          THEN op.attrs.lowest <= OutGenes[i] /\ OutGenes[i] <= op.attrs.highest
          ELSE OutGenes[i] = ind0.genes[i]

\* C8 witness: of three values possible, the first gene was selected and got
\* lowest, the second was selected and got highest
C8_Witness ==
  /\ op # NoOp /\ op.cls = "UniformInt" /\ HookReturned
  /\ op.attrs.lowest + 1 < op.attrs.highest
  /\ Len(OutGenes) = 2
  /\ hookDraws[1] <= op.attrs.prob /\ hookDraws[2] <= op.attrs.prob
  /\ OutGenes[1] = op.attrs.lowest /\ OutGenes[2] = op.attrs.highest
  /\ ind0.genes[2] = OutOfRange

\* C9: after n successive NormalDist calls on an individual, without alpha
\* the hidden genes are those it started with; with alpha the step size is
\* the initial one times alpha^k for a k of -n .. n with the parity of n.
C9_StepSize ==
  (op # NoOp /\ op.cls = "NormalDist" /\ HookReturned)
  => IF op.attrs.alpha = <<>>
     THEN OutHidden = ind0.hidden
     ELSE /\ Len(OutHidden) = Len(ind0.hidden)
          /\ \A i \in 2 .. Len(OutHidden) : OutHidden[i] = ind0.hidden[i]
          /\ \E k \in (0 - n) .. n :
               /\ (n - k) % 2 = 0
               /\ RatEq(OutHidden[1],
                        RatMul(ind0.hidden[1], RatPow(op.attrs.alpha[1], k)))

\* C9 witness: two calls with alpha = StepFactor, both of which chose
\* 1/alpha, took the step size from 3/2 to 3/(2 alpha^2) and changed the gene
C9_Witness ==
  /\ op # NoOp /\ op.cls = "NormalDist" /\ HookReturned
  /\ n = 2 /\ op.attrs.alpha = <<StepFactor>>
  /\ ind0.hidden = <<Rat(3, 2)>>
  /\ OutHidden = <<Rat(3, 2 * StepFactor * StepFactor)>>
  /\ Len(OutGenes) = 1 /\ OutGenes[1] # ind0.genes[1]

\* the concatenation of the hook results of a call log
RECURSIVE ConcatRets(_)
ConcatRets(calls) ==
  IF calls = <<>> THEN <<>>
  ELSE calls[1].ret.items \o ConcatRets(Tail(calls))

\* C10: process of a Population or Community invokes the hook once per batch
\* the iter_type yields, in that order, and returns the concatenation of the
\* hook results in a container that is not the argument.
C10_HookPerBatch ==
  (Processed /\ IsContainer(outcome.arg))
  => /\ outcome.status = "ok"
     /\ LET batches == Batches(outcome.self.iter_type, outcome.arg) IN
          /\ Len(outcome.calls) = Len(batches)
          /\ \A i \in DOMAIN batches : outcome.calls[i].batch = batches[i]
     /\ heap[outcome.ret].items = ConcatRets(outcome.calls)
     /\ outcome.ret # CallerId
     /\ heap[CallerId] = outcome.arg

====
